---- MODULE Spec2Model ----
(***************************************************************************)
(* Model of create-icon.py: the pixel function icon(x, y), the PNG encoder *)
(* create_png(width, height, pixels) and the module-level script that      *)
(* writes app-icon.png and prints the success line.                        *)
(***************************************************************************)
EXTENDS Integers, Sequences, FiniteSets, TLC

(***************************************************************************)
(* Floating point.  icon() uses math.sqrt and math.atan2 on small          *)
(* non-negative integers and only ever compares the results with literals. *)
(* A value of math.sqrt(n) is kept as its integer part and whether n is a  *)
(* perfect square; IEEE-754 sqrt is correctly rounded, so for the integer  *)
(* literals of icon() the comparisons below agree with the float ones for  *)
(* every n in 0 .. 2*512*512.  An angle atan2(dy, dx) in [0, pi/2] is kept *)
(* as the pair (dy, dx) and compared through its tangent: for all          *)
(* dx, dy in 0 .. 512 the float test atan2(dy, dx) < 0.8 (< 1.5) agrees    *)
(* with dy/dx < 1.029638 (< 14.1014).                                      *)
(***************************************************************************)

\* canvas side passed to create_png by the script
CanvasSize == 1024

\* x - cx written for abs(x - cx)
abs_missing(n) == n

abs(n) == IF n < 0 THEN -n ELSE n

RECURSIVE isqrt_search(_, _, _)
isqrt_search(n, lo, hi) ==
    IF lo = hi THEN lo
    ELSE LET mid == (lo + hi + 1) \div 2
         IN  IF mid * mid <= n THEN isqrt_search(n, mid, hi)
                               ELSE isqrt_search(n, lo, mid - 1)

\* the square root truncated to an integer (math.isqrt / int(math.sqrt(n)))
sqrt_truncated(n) ==
    [int |-> isqrt_search(n, 0, CanvasSize), exact |-> TRUE]

\* math.sqrt(n) for an integer 0 <= n <= 2*512*512
sqrt(n) ==
    LET q == isqrt_search(n, 0, CanvasSize)
    IN  [int |-> q, exact |-> q * q = n]

\* r >= c written for r > c
FGt_or_equal(r, c) == r.int >= c

\* r > c and r < c for a value r of sqrt and an integer literal c
FGt(r, c) == r.int > c \/ (r.int = c /\ ~r.exact)
FLt(r, c) == r.int < c

\* math.atan2(dy, dx) for dx, dy >= 0
atan2(dy, dx) == [dy |-> dy, dx |-> dx]

\* the float literals 0.8 and 1.5, as bounds on the tangent (num / den)
Angle_0_8 == [num |-> 1029638, den |-> 1000000]
Angle_1_5 == [num |-> 141014, den |-> 10000]

\* angle > t written for angle < t
AngleGt(angle, t) ==
    IF angle.dx = 0 THEN angle.dy > 0
    ELSE angle.dy * t.den > angle.dx * t.num

\* angle < t; atan2(0, 0) is 0.0 and atan2(dy, 0) is pi/2 for dy > 0
AngleLt(angle, t) ==
    IF angle.dx = 0 THEN angle.dy = 0
    ELSE angle.dy * t.den < angle.dx * t.num

(***************************************************************************)
(* icon(x, y): the fixed-priority cascade.  The value returned is the      *)
(* colour tuple together with the name of the return statement taken.      *)
(***************************************************************************)
Ret(rule, rgba) == [rule |-> rule, rgba |-> rgba]

\* the center dot tested before the cross bars
icon_dot_first(ax, ay) ==
    LET cx == 512
        cy == 512
        dx == abs(ax - cx)
        dy == abs(ay - cy)
        r  == sqrt(dx * dx + dy * dy)
    IN  IF FGt(r, 460) THEN Ret("outer", <<0, 0, 0, 0>>)
        ELSE IF FGt(r, 440) THEN Ret("ring", <<102, 136, 204, 255>>)
        ELSE IF FGt(r, 400) THEN Ret("black", <<0, 0, 0, 255>>)
        ELSE IF FLt(r, 120) THEN Ret("disc", <<153, 204, 255, 255>>)
        ELSE IF FLt(r, 125) THEN Ret("edge", <<102, 136, 204, 255>>)
        ELSE IF dy < 60 /\ dx < 350 THEN Ret("bar1", <<255, 153, 0, 255>>)
        ELSE IF dx < 60 /\ dy < 350 THEN Ret("bar2", <<102, 204, 204, 255>>)
        ELSE IF FGt(r, 300) /\ FLt(r, 340)
                /\ AngleLt(atan2(dy, dx), Angle_0_8)
             THEN Ret("arc1", <<204, 119, 255, 255>>)
        ELSE IF FGt(r, 300) /\ FLt(r, 340)
                /\ AngleLt(atan2(dy, dx), Angle_1_5)
             THEN Ret("arc2", <<102, 136, 204, 255>>)
        ELSE Ret("background", <<0, 8, 20, 255>>)

\* the two cross-bar tests in the other order
icon_bars_swapped(ax, ay) ==
    LET cx == 512
        cy == 512
        dx == abs(ax - cx)
        dy == abs(ay - cy)
        r  == sqrt(dx * dx + dy * dy)
    IN  IF FGt(r, 460) THEN Ret("outer", <<0, 0, 0, 0>>)
        ELSE IF FGt(r, 440) THEN Ret("ring", <<102, 136, 204, 255>>)
        ELSE IF FGt(r, 400) THEN Ret("black", <<0, 0, 0, 255>>)
        ELSE IF dx < 60 /\ dy < 350 THEN Ret("bar2", <<102, 204, 204, 255>>)
        ELSE IF dy < 60 /\ dx < 350 THEN Ret("bar1", <<255, 153, 0, 255>>)
        ELSE IF FGt(r, 300) /\ FLt(r, 340)
                /\ AngleLt(atan2(dy, dx), Angle_0_8)
             THEN Ret("arc1", <<204, 119, 255, 255>>)
        ELSE IF FGt(r, 300) /\ FLt(r, 340)
                /\ AngleLt(atan2(dy, dx), Angle_1_5)
             THEN Ret("arc2", <<102, 136, 204, 255>>)
        ELSE IF FLt(r, 120) THEN Ret("disc", <<153, 204, 255, 255>>)
        ELSE IF FLt(r, 125) THEN Ret("edge", <<102, 136, 204, 255>>)
        ELSE Ret("background", <<0, 8, 20, 255>>)

\* The rule names are the return statements of lines 23, 25, 27, 30, 32,
\* 37, 39, 42, 44 and 45.  A pixel of the 300 < r < 340 band whose angle is
\* not below 1.5 leaves the inner if without returning and goes on to the
\* center-dot tests.
icon(ax, ay) ==
    LET cx == 512
        cy == 512
        dx == abs(ax - cx)
        dy == abs(ay - cy)
        r  == sqrt(dx * dx + dy * dy)
    IN  IF FGt(r, 460) THEN Ret("outer", <<0, 0, 0, 0>>)
        ELSE IF FGt(r, 440) THEN Ret("ring", <<102, 136, 204, 255>>)
        ELSE IF FGt(r, 400) THEN Ret("black", <<0, 0, 0, 255>>)
        ELSE IF dy < 60 /\ dx < 350 THEN Ret("bar1", <<255, 153, 0, 255>>)
        ELSE IF dx < 60 /\ dy < 350 THEN Ret("bar2", <<102, 204, 204, 255>>)
        ELSE IF FGt(r, 300) /\ FLt(r, 340)
                /\ AngleLt(atan2(dy, dx), Angle_0_8)
             THEN Ret("arc1", <<204, 119, 255, 255>>)
        ELSE IF FGt(r, 300) /\ FLt(r, 340)
                /\ AngleLt(atan2(dy, dx), Angle_1_5)
             THEN Ret("arc2", <<102, 136, 204, 255>>)
        ELSE IF FLt(r, 120) THEN Ret("disc", <<153, 204, 255, 255>>)
        ELSE IF FLt(r, 125) THEN Ret("edge", <<102, 136, 204, 255>>)
        ELSE Ret("background", <<0, 8, 20, 255>>)

(***************************************************************************)
(* Bytes.  A bytes object is a sequence of integers in 0 .. 255.           *)
(***************************************************************************)
\* struct.pack('>I', n) for 0 <= n < 2^31
pack_I(n) ==
    <<(n \div 16777216) % 256, (n \div 65536) % 256, (n \div 256) % 256, n % 256>>

\* struct.pack('>IIBBBBB', w, h, a, b, c, d, e)
pack_IIBBBBB(w, h, a, b, c, d, e) ==
    pack_I(w) \o pack_I(h) \o <<a % 256, b % 256, c % 256, d % 256, e % 256>>

\* b'\x89PNG\r\n\x1a\n'
Signature == <<137, 80, 78, 71, 13, 10, 26, 10>>

TagIHDR == <<73, 72, 68, 82>>
TagIDAT == <<73, 68, 65, 84>>
TagIEND == <<73, 69, 78, 68>>

(***************************************************************************)
(* zlib.crc32: the reflected CRC-32 of zlib (polynomial 0xEDB88320), bit   *)
(* by bit.  A 32-bit value does not fit a 32-bit signed integer, so the    *)
(* register is the pair <<high 16 bits, low 16 bits>>, and the value       *)
(* crc32(c) & 0xffffffff is returned as the four bytes that                *)
(* struct.pack('>I', ...) makes of it.                                     *)
(***************************************************************************)
RECURSIVE BitXor(_, _, _)
BitXor(a, b, bits) ==
    IF bits = 0 THEN 0
    ELSE ((a + b) % 2) + 2 * BitXor(a \div 2, b \div 2, bits - 1)

\* one shift of the register <<hi, lo>>: 0xEDB88320 is <<60856, 33568>>
CrcShift(reg) ==
    LET hi == reg[1] \div 2
        lo == (reg[2] \div 2) + 32768 * (reg[1] % 2)
    IN  IF reg[2] % 2 = 1
        THEN <<BitXor(hi, 60856, 16), BitXor(lo, 33568, 16)>>
        ELSE <<hi, lo>>

\* (the test reg = <<>> is never true: it makes the register a value before
\* the next step instead of a growing unevaluated expression)
RECURSIVE CrcShifts(_, _)
CrcShifts(reg, k) ==
    IF k = 0 \/ reg = <<>> THEN reg ELSE CrcShifts(CrcShift(reg), k - 1)

CrcByte(reg, b) == CrcShifts(<<reg[1], BitXor(reg[2], b, 16)>>, 8)

RECURSIVE CrcRun(_, _, _)
CrcRun(reg, data, i) ==
    IF i > Len(data) \/ reg = <<>> THEN reg
    ELSE CrcRun(CrcByte(reg, data[i]), data, i + 1)

\* struct.pack('>I', zlib.crc32(c) & 0xffffffff)
pack_I_crc32(c) ==
    LET run == CrcRun(<<65535, 65535>>, c, 1)
        hi == 65535 - run[1]
        lo == 65535 - run[2]
    IN  <<hi \div 256, hi % 256, lo \div 256, lo % 256>>

(***************************************************************************)
(* zlib.compress(raw).  The deflate coder is library code; it is modelled  *)
(* as the zlib stream that stores raw in one uncompressed deflate block:   *)
(* header 78 01, block header 01, LEN and its complement little-endian,    *)
(* the bytes, then Adler-32 of raw big-endian.  Every inflater decodes it  *)
(* to raw; the stream's length differs from raw's.                         *)
(***************************************************************************)
RECURSIVE AdlerRun(_, _, _, _)
AdlerRun(a, b, data, i) ==
    IF i > Len(data) THEN <<a, b>>
    ELSE LET a2 == (a + data[i]) % 65521
         IN  AdlerRun(a2, (b + a2) % 65521, data, i + 1)

zlib_compress(data) ==
    LET n == Len(data)
        m == 65535 - n
        s == AdlerRun(1, 0, data, 1)
    IN  <<120, 1, 1, n % 256, n \div 256, m % 256, m \div 256>>
        \o data
        \o <<s[2] \div 256, s[2] % 256, s[1] \div 256, s[1] % 256>>

(***************************************************************************)
(* create_png(width, height, pixels)                                       *)
(***************************************************************************)
\* the length field taken over tag + payload
chunk_length_of_c(ctype, data) ==
    LET c == ctype \o data
    IN  pack_I(Len(c)) \o c \o pack_I_crc32(c)

chunk(ctype, data) ==
    LET c == ctype \o data
    IN  pack_I(Len(data)) \o c \o pack_I_crc32(c)

\* the pixel functions create_png is called with: the script's icon, the
\* constant (1, 2, 3, 4), and one that tells every coordinate apart
PixelFunctions == {"icon", "constant", "coordinates"}

\* bytes(pixels(x, y))
pixel_bytes(pixels, px, py) ==
    CASE pixels = "icon" -> icon(px, py).rgba
      [] pixels = "constant" -> <<1, 2, 3, 4>>
      [] pixels = "coordinates" -> <<px, py, 16 * px + py, 255>>

RECURSIVE row_pixels(_, _, _, _)
row_pixels(pixels, width, px, py) ==
    IF px >= width THEN <<>>
    ELSE pixel_bytes(pixels, px, py) \o row_pixels(pixels, width, px + 1, py)

\* pixels(y, x) called for pixels(x, y)
RECURSIVE row_pixels_transposed(_, _, _, _)
row_pixels_transposed(pixels, width, px, py) ==
    IF px >= width THEN <<>>
    ELSE pixel_bytes(pixels, py, px)
         \o row_pixels_transposed(pixels, width, px + 1, py)

scanline_transposed(pixels, width, py) ==
    <<0>> \o row_pixels_transposed(pixels, width, 0, py)

\* one pass of the outer loop: what lines 9-11 append to raw for row y
scanline(pixels, width, py) == <<0>> \o row_pixels(pixels, width, 0, py)

\* the return expression, from the finished raw buffer
create_png_return(width, height, rawbuf) ==
    Signature
    \o chunk(TagIHDR, pack_IIBBBBB(width, height, 8, 6, 0, 0, 0))
    \o chunk(TagIDAT, zlib_compress(rawbuf))
    \o chunk(TagIEND, <<>>)

(***************************************************************************)
(* State.  x, y, pc, ret: one call of icon.  The rest is the script run:   *)
(* the arguments and locals of create_png (width, height, pixels, raw and  *)
(* the outer loop's position row), the bytes it returned (png, empty until *)
(* it returns), the file app-icon.png (file; before is what it was when    *)
(* the run started), the handle f, what was printed, the exception being   *)
(* propagated and the script's position.                                   *)
(***************************************************************************)
VARIABLES x, y, pc, ret,
          width, height, pixels, raw, row, png,
          file, before, f, stdout, exc, rpc

iconVars == <<x, y, pc, ret>>
pngVars == <<width, height, pixels, raw, row, png>>
runVars == <<file, before, f, stdout, exc, rpc>>
vars == <<iconVars, pngVars, runVars>>

NoRet == Ret("none", <<>>)

\* bounds of the canvases create_png is run on
MaxWidth == 4
MaxHeight == 4

Absent == [exists |-> FALSE, data |-> <<>>]
Content(data) == [exists |-> TRUE, data |-> data]

\* app-icon.png before the run: not there, or there with older content
FilesBefore == {Absent, Content(<<7, 7, 7>>)}

NoRun ==
    /\ width = 0 /\ height = 0 /\ pixels = "icon"
    /\ raw = <<>> /\ row = 0 /\ png = <<>>
    /\ file = Absent /\ before = Absent
    /\ f = "unbound" /\ stdout = <<>> /\ exc = "none" /\ rpc = "idle"

\* a call icon(x, y) made by create_png(1024, 1024, icon): x, y in range(1024)
Init ==
    /\ x \in 0 .. CanvasSize - 1
    /\ y \in 0 .. CanvasSize - 1
    /\ pc = "call"
    /\ ret = NoRet
    /\ NoRun

IconCall ==
    /\ pc = "call"
    /\ ret' = icon(x, y)
    /\ pc' = "ret"
    /\ UNCHANGED <<x, y, pngVars, runVars>>

Next == IconCall

Spec == Init /\ [][Next]_vars

(***************************************************************************)
(* The script, lines 47-50, with create_png unfolded row by row.           *)
(***************************************************************************)
InitRun ==
    /\ x = 0 /\ y = 0 /\ pc = "idle" /\ ret = NoRet
    /\ width \in 1 .. MaxWidth
    /\ height \in 1 .. MaxHeight
    /\ pixels \in PixelFunctions
    /\ raw = <<>> /\ row = 0 /\ png = <<>>
    /\ before \in FilesBefore
    /\ file = before
    /\ f = "unbound" /\ stdout = <<>> /\ exc = "none"
    /\ rpc = "open"

\* open('app-icon.png', 'wb'): creates the file or truncates it
Open ==
    /\ rpc = "open"
    /\ f' = "open"
    /\ file' = Content(<<>>)
    /\ rpc' = "loop"
    /\ UNCHANGED <<iconVars, pngVars, before, stdout, exc>>

\* open raises OSError: nothing is bound and the file is untouched
OpenFail ==
    /\ rpc = "open"
    /\ exc' = "open"
    /\ rpc' = "error"
    /\ UNCHANGED <<iconVars, pngVars, file, before, f, stdout>>

\* one pass of `for y in range(height)`
Row ==
    /\ rpc = "loop"
    /\ row < height
    /\ raw' = raw \o scanline(pixels, width, row)
    /\ row' = row + 1
    /\ UNCHANGED <<iconVars, width, height, pixels, png, runVars>>

\* pixel generation raises (MemoryError while raw grows, or pixels raising)
RowFail ==
    /\ rpc = "loop"
    /\ row < height
    /\ exc' = "pixels"
    /\ rpc' = "exit_with"
    /\ UNCHANGED <<iconVars, pngVars, file, before, f, stdout>>

\* the loop is over: compress, frame, return
Return ==
    /\ rpc = "loop"
    /\ row = height
    /\ png' = create_png_return(width, height, raw)
    /\ rpc' = "write"
    /\ UNCHANGED <<iconVars, width, height, pixels, raw, row,
                   file, before, f, stdout, exc>>

\* zlib.compress raises
CompressFail ==
    /\ rpc = "loop"
    /\ row = height
    /\ exc' = "compress"
    /\ rpc' = "exit_with"
    /\ UNCHANGED <<iconVars, pngVars, file, before, f, stdout>>

\* f.write(...) and the flush of what it buffered: all the bytes reach the file
Write ==
    /\ rpc = "write"
    /\ file' = Content(png)
    /\ rpc' = "exit_with"
    /\ UNCHANGED <<iconVars, pngVars, before, f, stdout, exc>>

\* the write raises OSError (disk full, I/O error) after k < len bytes
WriteFail ==
    /\ rpc = "write"
    /\ \E k \in 0 .. Len(png) - 1 : file' = Content(SubSeq(png, 1, k))
    /\ exc' = "write"
    /\ rpc' = "exit_with"
    /\ UNCHANGED <<iconVars, pngVars, before, f, stdout>>

\* the with statement's exit without closing f when an exception propagates
WithExit_no_close_on_error ==
    /\ rpc = "exit_with"
    /\ f' = IF exc = "none" THEN "closed" ELSE f
    /\ rpc' = IF exc = "none" THEN "print" ELSE "error"
    /\ UNCHANGED <<iconVars, pngVars, file, before, stdout, exc>>

\* leaving the with block, normally or by an exception: f is closed
WithExit ==
    /\ rpc = "exit_with"
    /\ f' = "closed"
    /\ rpc' = IF exc = "none" THEN "print" ELSE "error"
    /\ UNCHANGED <<iconVars, pngVars, file, before, stdout, exc>>

\* print('Created app-icon.png'), then the script ends
PrintCreated ==
    /\ rpc = "print"
    /\ stdout' = Append(stdout, "Created app-icon.png")
    /\ rpc' = "exit0"
    /\ UNCHANGED <<iconVars, pngVars, file, before, f, exc>>

NextRun ==
    \/ Open
    \/ OpenFail
    \/ Row
    \/ RowFail
    \/ Return
    \/ CompressFail
    \/ Write
    \/ WriteFail
    \/ WithExit
    \/ PrintCreated

SpecRun == InitRun /\ [][NextRun]_vars

(***************************************************************************)
(* Properties of icon(x, y), over every pixel of the 1024 x 1024 canvas.   *)
(***************************************************************************)
Returned == pc = "ret"

\* offsets from the center and the squared distance, in integers
OffX == IF x >= 512 THEN x - 512 ELSE 512 - x
OffY == IF y >= 512 THEN y - 512 ELSE 512 - y
DistSq == OffX * OffX + OffY * OffY

Transparent == <<0, 0, 0, 0>>
BlueGray == <<102, 136, 204, 255>>
Amber == <<255, 153, 0, 255>>
Teal == <<102, 204, 204, 255>>
Violet == <<204, 119, 255, 255>>
LightBlue == <<153, 204, 255, 255>>
Navy == <<0, 8, 20, 255>>

\* C1 as stated: the center pixel (512, 512), where r = 0, is returned as
\* the light-blue center-disc colour (153,204,255,255).
C1_CenterPixelLightBlue ==
    (Returned /\ x = 512 /\ y = 512) => ret.rgba = LightBlue

\* C1 amended: the center pixel (512, 512), where r = 0, is claimed by the
\* first cross-bar test (dy < 60 and dx < 350), which precedes the
\* center-disc test, and is returned as amber (255,153,0,255).
C1_CenterPixelAmber ==
    (Returned /\ x = 512 /\ y = 512) =>
        (ret.rule = "bar1" /\ ret.rgba = Amber)

C1_Witness == Returned /\ x = 512 /\ y = 512 /\ DistSq = 0

\* C2 as stated: every pixel at distance exactly 460 from the center
\* ((x-512)^2 + (y-512)^2 = 211600) is returned transparent, alpha 0.
C2_Radius460Transparent ==
    (Returned /\ DistSq = 211600) => ret.rgba[4] = 0

\* C2 amended: every pixel at distance exactly 460 from the center is
\* returned opaque, as the outer band colour (102,136,204,255): r > 460 is
\* false there and r > 440 is true.
C2_Radius460OuterBand ==
    (Returned /\ DistSq = 211600) =>
        (ret.rule = "ring" /\ ret.rgba = BlueGray /\ ret.rgba[4] = 255)

C2_Witness == Returned /\ x = 788 /\ y = 880 /\ DistSq = 211600

\* C3: a pixel is returned as (0,0,0,0) if and only if
\* (x-512)^2 + (y-512)^2 > 460^2, and every other pixel has alpha 255: the
\* opaque pixels are exactly the closed disc of radius 460; the corner
\* (0, 0) is transparent.
C3_OpaqueIsClosedDisc ==
    Returned =>
        /\ (ret.rgba = Transparent) <=> (DistSq > 460 * 460)
        /\ (DistSq <= 460 * 460) => ret.rgba[4] = 255
        /\ (DistSq > 460 * 460) => ret.rgba[4] = 0
        /\ (x = 0 /\ y = 0) => ret.rgba = Transparent

\* a transparent pixel just outside the disc: 460^2 < 460^2 + 1 < 461^2
C3_Witness ==
    /\ Returned
    /\ x = 972 /\ y = 513
    /\ DistSq = 460 * 460 + 1
    /\ ret.rgba = Transparent

InBar1 == OffY < 60 /\ OffX < 350
InBar2 == OffX < 60 /\ OffY < 350

\* C8: every pixel with r <= 400 satisfying both cross-bar predicates is
\* returned as amber (255,153,0,255), the colour of the test evaluated
\* first, never teal; and no pixel with r <= 400 satisfying either
\* predicate receives a center-disc, center-edge, arc or background colour.
C8_BarsTakePrecedence ==
    (Returned /\ DistSq <= 400 * 400) =>
        /\ (InBar1 /\ InBar2) => (ret.rgba = Amber /\ ret.rule = "bar1")
        /\ (InBar1 \/ InBar2) =>
              /\ ret.rule \in {"bar1", "bar2"}
              /\ ret.rgba \in {Amber, Teal}
              /\ ret.rule = (IF InBar1 THEN "bar1" ELSE "bar2")

\* a pixel of the overlap square that is also inside the center disc
C8_Witness ==
    /\ Returned
    /\ x = 530 /\ y = 490
    /\ InBar1 /\ InBar2
    /\ DistSq < 120 * 120
    /\ ret.rgba = Amber

SymmetricRules == {"outer", "ring", "black", "disc", "edge", "background"}

\* the pixels of the canvas whose offset from the center is (dx, dy)
PixelsAtOffset(dx, dy) ==
    {p \in {512 - dx, 512 + dx} \X {512 - dy, 512 + dy} :
        /\ p[1] \in 0 .. CanvasSize - 1
        /\ p[2] \in 0 .. CanvasSize - 1}

\* C9: if the pixel at offset (dx, dy) is coloured by an outer, ring,
\* center-disc, center-edge or background rule (not by a cross bar or the
\* inner arc), every pixel at the rotated offset (dy, dx) is coloured by
\* the same rule with the same colour.
C9_RotationSymmetry ==
    (Returned /\ ret.rule \in SymmetricRules) =>
        /\ PixelsAtOffset(OffY, OffX) # {}
        /\ \A p \in PixelsAtOffset(OffY, OffX) : icon(p[1], p[2]) = ret

\* a center-disc pixel off the diagonal, and its rotated image
C9_Witness ==
    /\ Returned
    /\ x = 582 /\ y = 432
    /\ OffX = 70 /\ OffY = 80
    /\ ret.rule = "disc"
    /\ <<592, 442>> \in PixelsAtOffset(OffY, OffX)

\* C10: in the canvas the inner-arc fall-through is unreachable: a pixel
\* with 300 < r < 340 not claimed by a cross bar has dx >= 60, dy < 340 and
\* atan2(dy, dx) < 1.5, so every pixel with 300 < r < 340 is amber, teal,
\* violet or blue-gray, and none is the background navy.
C10_ArcFallThroughUnreachable ==
    (Returned /\ DistSq > 300 * 300 /\ DistSq < 340 * 340) =>
        /\ ret.rule \in {"bar1", "bar2", "arc1", "arc2"}
        /\ ret.rgba \in {Amber, Teal, Violet, BlueGray}
        /\ ret.rgba # Navy
        /\ ~(InBar1 \/ InBar2) =>
              /\ OffX >= 60 /\ OffY < 340
              /\ OffY * 10000 < OffX * 141014
              /\ ret.rule \in {"arc1", "arc2"}

\* the arc pixel of the largest angle next to the vertical bar
C10_Witness ==
    /\ Returned
    /\ x = 572 /\ y = 846
    /\ OffX = 60 /\ OffY = 334
    /\ ~(InBar1 \/ InBar2)
    /\ ret.rule = "arc2"

(***************************************************************************)
(* Properties of create_png and of the script run.                         *)
(***************************************************************************)
Stride == 1 + 4 * width

\* the four bytes of pixel px of finished row j, read back from raw
RawPixel(j, px) == SubSeq(raw, j * Stride + 2 + 4 * px, j * Stride + 5 + 4 * px)

\* C4: after each completed row y the raw buffer has (y+1) * (1 + 4*W)
\* bytes and at the end H * (1 + 4*W); row y occupies
\* [y*(1+4W), (y+1)*(1+4W)), begins with the filter byte 0 and carries the
\* 4 bytes of P(x, y) for x = 0 .. W-1 in increasing x, rows in increasing
\* y; a 4x4 canvas of constant (1,2,3,4) gives 68 bytes, each row 0 then
\* four times 1,2,3,4.
C4_RawBufferLayout ==
    (rpc # "idle") =>
        /\ row \in 0 .. height
        /\ Len(raw) = row * Stride
        /\ \A j \in 0 .. row - 1 :
              /\ raw[j * Stride + 1] = 0
              /\ \A px \in 0 .. width - 1 :
                    RawPixel(j, px) = pixel_bytes(pixels, px, j)
        /\ (png # <<>>) => (row = height /\ Len(raw) = height * Stride)
        /\ (width = 4 /\ height = 4 /\ pixels = "constant" /\ row = height) =>
              /\ Len(raw) = 68
              /\ \A j \in 0 .. 3 :
                    SubSeq(raw, 17 * j + 1, 17 * j + 17)
                        = <<0, 1, 2, 3, 4, 1, 2, 3, 4, 1, 2, 3, 4, 1, 2, 3, 4>>

\* a finished buffer whose pixels differ from column to column and row to row
C4_Witness ==
    /\ rpc = "write"
    /\ width = 3 /\ height = 2 /\ pixels = "coordinates"
    /\ row = height
    /\ Len(raw) = 26
    /\ RawPixel(1, 2) = <<2, 1, 33, 255>>

\* a chunk read back from the bytes b at offset off: the big-endian length
\* field, the tag, that many payload bytes, the checksum, where it ends
U32At(b, off) ==
    b[off + 1] * 16777216 + b[off + 2] * 65536 + b[off + 3] * 256 + b[off + 4]

ChunkAt(b, off) ==
    LET n == U32At(b, off)
    IN  [len  |-> n,
         tag  |-> SubSeq(b, off + 5, off + 8),
         data |-> SubSeq(b, off + 9, off + 8 + n),
         crc  |-> SubSeq(b, off + 9 + n, off + 12 + n),
         end  |-> off + 12 + n]

\* C5: the bytes create_png returns are the 8-byte signature followed by
\* exactly three chunks, IHDR, IDAT, IEND, and nothing else; each length
\* field is the length of the payload alone, each checksum is over
\* tag + payload; the IHDR payload is the 13 bytes (W, H, 8, 6, 0, 0, 0)
\* and the IEND payload is empty.
C5_PngFraming ==
    (rpc = "write") =>
        LET c1 == ChunkAt(png, 8)
            c2 == ChunkAt(png, c1.end)
            c3 == ChunkAt(png, c2.end)
        IN  /\ SubSeq(png, 1, 8) = Signature
            /\ c1.tag = TagIHDR
            /\ c1.len = 13
            /\ c1.data = <<0, 0, 0, width, 0, 0, 0, height, 8, 6, 0, 0, 0>>
            /\ c1.crc = pack_I_crc32(c1.tag \o c1.data)
            /\ c2.tag = TagIDAT
            /\ c2.len = Len(zlib_compress(raw))
            /\ c2.data = zlib_compress(raw)
            /\ c2.crc = pack_I_crc32(c2.tag \o c2.data)
            /\ c3.tag = TagIEND
            /\ c3.len = 0
            /\ c3.data = <<>>
            /\ c3.crc = pack_I_crc32(TagIEND)
            /\ c3.end = Len(png)
            /\ Len(png) = 8 + 25 + (12 + c2.len) + 12

C5_Witness ==
    /\ rpc = "write"
    /\ width = 2 /\ height = 3
    /\ Len(png) = 8 + 25 + (12 + 11 + 27) + 12
    /\ SubSeq(png, Len(png) - 3, Len(png)) = <<174, 66, 96, 130>>

Terminated == rpc \in {"exit0", "error"}

\* C6: on any failure of the run (pixel generation, compression or the
\* write failing) app-icon.png is not left truncated or partial: in every
\* terminal state the file holds the complete encoded image or is exactly
\* as it was before the run started.
C6_FileNeverPartial ==
    Terminated =>
        \/ (png # <<>> /\ file = Content(png))
        \/ file = before

\* C7: the success line is printed at most once, and only after the
\* complete byte sequence has been written and the handle released; in
\* every run where opening, encoding or writing fails the process ends in
\* an error state without printing it, and the handle is not left open.
C7_SuccessLineOnlyAfterWrite ==
    (rpc # "idle") =>
        /\ Len(stdout) <= 1
        /\ (stdout # <<>>) =>
              /\ stdout = <<"Created app-icon.png">>
              /\ png # <<>> /\ file = Content(png)
              /\ f = "closed"
              /\ exc = "none"
              /\ rpc = "exit0"
        /\ (exc # "none") => (stdout = <<>> /\ rpc \in {"exit_with", "error"})
        /\ (Terminated /\ exc # "none") => (rpc = "error" /\ f # "open")
        /\ (rpc = "exit0") => (exc = "none" /\ Len(stdout) = 1)
        /\ Terminated => f # "open"

\* a failed write: the handle was released and nothing was printed
C7_Witness ==
    /\ rpc = "error"
    /\ exc = "write"
    /\ f = "closed"
    /\ file.exists /\ Len(file.data) < Len(png)
    /\ stdout = <<>>

====
